---- MODULE Spec2Model ----
(***************************************************************************)
(* Model of tdms_hd5f.py: the TDMS -> HDF5 converter, the HDF5 recompressor *)
(* and the command-line entry point, over an explicit file system.          *)
(*                                                                          *)
(* A path is a sequence of one-character strings.  An HDF5 tree is a        *)
(* function from node names (sequences of link names, <<>> the root) to     *)
(* nodes.  A TDMS file is a record of root properties and named groups of   *)
(* named channels.                                                          *)
(***************************************************************************)
EXTENDS Integers, Sequences, FiniteSets, TLC

VARIABLES
    fs,             \* path -> content of the file at that path
    fs0,            \* fs when the current call was entered (history)
    open,           \* the file handles that are open: records [path, mode]
    written,        \* paths that were opened for writing during the call (history)
    stdout,         \* the messages printed so far
    exit,           \* the process's exit status, or NoExit while it runs
    pc,             \* position in the running procedure
    entry,          \* the entry point of the call: convert, compress, main, script
    argv,           \* sys.argv[1:]
    tdms_filepath,  \* convert_tdms_to_hdf5 / main parameter
    hdf5_filepath,  \* convert_tdms_to_hdf5 / main parameter
    tdms_file,      \* the TdmsFile read into memory, or NoTdms
    input_path,     \* compress_hdf5_file parameter
    output_path,    \* compress_hdf5_file local
    visited,        \* names copy_item was called with, in call order
    run,            \* how many times compress_hdf5_file was started on input_path
    firstOut,       \* the output file's content after the first compress run (history)
    firstVisited    \* the visit order of the first compress run (history)

vars == <<fs, fs0, open, written, stdout, exit, pc, entry, argv, tdms_filepath,
          hdf5_filepath, tdms_file, input_path, output_path, visited, run,
          firstOut, firstVisited>>

----------------------------------------------------------------------------
(* Bounds *)

MaxPathLen == 4

MaxDim == 2

MaxData == 1

----------------------------------------------------------------------------
(* Paths and os.path.splitext *)

NoPath == <<"<None>">>

Sep == "/"

ExtSep == "."

H5Ext == <<".", "h", "5">>

CompressedSuffix == <<"_", "c", "o", "m", "p", "r", "e", "s", "s", "e", "d">>

\* str.rfind: the last index of character c in p, 0 when there is none
RFind(p, c) ==
    LET hits == {i \in 1..Len(p) : p[i] = c}
    IN  IF hits = {} THEN 0 ELSE CHOOSE i \in hits : \A j \in hits : j <= i

\* os.path.splitext (posixpath -> genericpath._splitext): the extension starts
\* at the last dot of the last component, unless only dots precede that dot
\* in the component
Splitext(p) ==
    LET sepIndex == RFind(p, Sep)
        dotIndex == RFind(p, ExtSep)
    IN  IF dotIndex > sepIndex
           /\ \E filenameIndex \in (sepIndex + 1)..(dotIndex - 1) :
                  p[filenameIndex] # ExtSep
        THEN <<SubSeq(p, 1, dotIndex - 1), SubSeq(p, dotIndex, Len(p))>>
        ELSE <<p, <<>>>>

DefaultHdf5PathNoStrip(tdms_path) == tdms_path \o H5Ext

\* lines 20-22: base, _ = os.path.splitext(tdms_filepath); base + ".h5"
DefaultHdf5Path(tdms_path) == Splitext(tdms_path)[1] \o H5Ext

\* lines 20-22: the output path convert_tdms_to_hdf5 writes to
ResolveHdf5Path(tdms_path, hdf5_path) ==
    IF hdf5_path = NoPath THEN DefaultHdf5Path(tdms_path) ELSE hdf5_path

CompressedPathAppend(p) == p \o CompressedSuffix

\* lines 50-51: base, ext = os.path.splitext(input_path); f"{base}_compressed{ext}"
CompressedPath(p) == Splitext(p)[1] \o CompressedSuffix \o Splitext(p)[2]

----------------------------------------------------------------------------
(* File contents, HDF5 trees and TDMS files *)

Absent == [kind |-> "absent"]

Junk == [kind |-> "junk"]

Hdf5File(tree) == [kind |-> "hdf5", tree |-> tree]

TdmsContent(t) == [kind |-> "tdms", tdms |-> t]

NoTdms == [kind |-> "none"]

\* the exit status: <<>> while the process runs, <<n>> once it ended with n
NoExit == <<>>

Status(n) == <<n>>

EmptyAttrs == [k \in {} |-> 0]

\* d overridden by the key/value pairs of s:  for key, value in s.items(): d[key] = value
Override(d, s) ==
    [k \in (DOMAIN d) \cup (DOMAIN s) |-> IF k \in DOMAIN s THEN s[k] ELSE d[k]]

GzipLevel == 9

NoFilter == [compression |-> "none", compression_opts |-> 0]

\* line 34: compression="gzip", compression_opts=9
DefaultFilter == [compression |-> "gzip", compression_opts |-> GzipLevel]

GroupNode(attrs) == [kind |-> "group", attrs |-> attrs]

DatasetNode(dtype, shape, data, attrs, filter) ==
    [kind |-> "dataset", dtype |-> dtype, shape |-> shape, data |-> data,
     attrs |-> attrs, filter |-> filter]

Root == <<>>

\* h5py.File(path, 'w'): a new file holds the root group alone
EmptyTree == [n \in {Root} |-> GroupNode(EmptyAttrs)]

\* the groups on the way to name, the root excluded
ProperPrefixes(name) == {SubSeq(name, 1, i) : i \in 1..(Len(name) - 1)}

MissingGroups(tree, names) == {n \in names : n \notin DOMAIN tree}

RequireGroupReplacing(tree, name) ==
    LET kept == {n \in DOMAIN tree :
                    ~(Len(n) > Len(name) /\ SubSeq(n, 1, Len(name)) = name)}
    IN  [n \in kept \cup ProperPrefixes(name) \cup {name} |->
            IF n \in kept /\ n # name THEN tree[n] ELSE GroupNode(EmptyAttrs)]

\* line 77: f_out.require_group(name): the group is opened when it exists and
\* created, with the missing groups on the way to it, when it does not
RequireGroup(tree, name) ==
    LET new == MissingGroups(tree, ProperPrefixes(name) \cup {name})
    IN  [n \in (DOMAIN tree) \cup new |->
            IF n \in new THEN GroupNode(EmptyAttrs) ELSE tree[n]]

\* the groups h5py's create_dataset requires above name
WithParents(tree, name) ==
    LET new == MissingGroups(tree, ProperPrefixes(name))
    IN  [n \in (DOMAIN tree) \cup new |->
            IF n \in new THEN GroupNode(EmptyAttrs) ELSE tree[n]]

\* h5py refuses chunk/filter options on a dataset of scalar shape (TypeError)
FilterRejected(shape, filter) == shape = <<>> /\ filter.compression # "none"

\* lines 73-74, 79-80: for key, value in obj.attrs.items(): target.attrs[key] = value
CopyAttrs(tree, name, attrs) ==
    [tree EXCEPT ![name].attrs = Override(@, attrs)]

\* lines 56-80: copy_item(name, obj) on the output tree; raised when
\* create_dataset raises
CopyItem(out, name, obj, filter) ==
    IF obj.kind = "dataset"
    THEN IF FilterRejected(obj.shape, filter) \/ name \in DOMAIN out
         THEN [tree |-> WithParents(out, name), raised |-> TRUE]
         ELSE LET made == [n \in DOMAIN WithParents(out, name) \cup {name} |->
                              IF n = name
                              THEN DatasetNode(obj.dtype, obj.shape, obj.data,
                                               EmptyAttrs, filter)
                              ELSE WithParents(out, name)[n]]
              IN  [tree |-> CopyAttrs(made, name, obj.attrs), raised |-> FALSE]
    ELSE [tree |-> CopyAttrs(RequireGroup(out, name), name, obj.attrs),
          raised |-> FALSE]

\* line 83: f_in.visititems(copy_item) calls copy_item for every object below
\* the group it is called on; the group itself (here the root) is not visited
VisitNames(tree) == (DOMAIN tree) \ {Root}

\* the tree as a reader sees it: the storage filter is transparent
Decoded(tree) ==
    [n \in DOMAIN tree |->
        IF tree[n].kind = "dataset"
        THEN [tree[n] EXCEPT !.filter = NoFilter]
        ELSE tree[n]]

\* nptdms as_hdf(filepath, mode, group='/'): root properties become attributes
\* of the container group, each TDMS group a group below it, each channel a
\* dataset below its group, properties copied as attributes
AsHdf(tdms, base) ==
    LET gnames == DOMAIN tdms.groups
        gnodes == {<<g>> : g \in gnames}
        cnodes == {<<g, c>> : g \in gnames, c \in UNION {DOMAIN tdms.groups[h].channels : h \in gnames}}
        channels == {n \in cnodes : n[2] \in DOMAIN tdms.groups[n[1]].channels}
    IN  [n \in (DOMAIN base) \cup gnodes \cup channels |->
            IF n = Root
            THEN [base[Root] EXCEPT !.attrs = Override(@, tdms.properties)]
            ELSE IF n \in gnodes
            THEN GroupNode(tdms.groups[n[1]].properties)
            ELSE IF n \in channels
            THEN LET ch == tdms.groups[n[1]].channels[n[2]]
                 IN  DatasetNode(ch.dtype, <<Len(ch.data)>>, ch.data,
                                 ch.properties, NoFilter)
            ELSE base[n]]

ExportFileAppend(prior, tdms) ==
    Hdf5File(AsHdf(tdms, IF prior.kind = "hdf5" THEN prior.tree ELSE EmptyTree))

\* line 31: tdms_file.as_hdf(hdf5_filepath, mode='w', group='/'): the file is
\* created fresh, whatever it held before
ExportFile(prior, tdms) == Hdf5File(AsHdf(tdms, EmptyTree))

----------------------------------------------------------------------------
(* The files and arguments the program is run on *)

SrcTdms == <<"x", "/", "y", ".", "t", "d", "m", "s">>

SrcH5Named == <<"y", ".", "h", "5">>

ExplicitOut == <<"o", ".", "h", "5">>

CompressIn == <<"a", "/", "b", ".", "h", "5">>

HardcodedDir ==
    <<"/", "A", "p", "p", "l", "i", "c", "a", "t", "i", "o", "n", "s",
      "/", "C", "o", "d", "e", "/", "C", "o", "d", "e",
      "/", "t", "d", "m", "s", "_", "c", "o", "n", "v", "e", "r", "t", "/">>

HardcodedStem ==
    <<"h", "u", "g", "e", "_", "t", "e", "s", "t", "_", "f", "i", "l", "e",
      "_", "l", "o", "w">>

\* line 109: hdf5_filepath = ".../huge_test_file_low.h5"
HardcodedHdf5 == HardcodedDir \o HardcodedStem \o H5Ext

ConvertSources == {SrcTdms, SrcH5Named}

CompressInputs == {CompressIn, HardcodedHdf5}

FsPaths ==
    ConvertSources \cup CompressInputs \cup {ExplicitOut}
    \cup {DefaultHdf5Path(q) : q \in ConvertSources}
    \cup {CompressedPath(q) : q \in CompressInputs}

DataVals == 0..MaxData

AttrSets == {EmptyAttrs, [k \in {"unit"} |-> 1]}

DTypes == {"int32", "float64"}

ArrayData == UNION {[1..n -> DataVals] : n \in 1..MaxDim}

\* datasets of an HDF5 input: scalars and one-dimensional arrays
H5Datasets ==
    {DatasetNode("float64", <<>>, <<v>>, a, NoFilter) : v \in DataVals, a \in AttrSets}
    \cup {DatasetNode("float64", <<Len(d)>>, d, a, NoFilter) : d \in ArrayData, a \in AttrSets}

Single(n, node) == [x \in {n} |-> node]

\* no node, no group, no channel: the empty mapping
Nothing == [n \in {} |-> 0]

GParts ==
    {Nothing}
    \cup {Single(<<"g">>, GroupNode(a)) : a \in AttrSets}
    \cup {Override(Single(<<"g">>, GroupNode(a)), Single(<<"g", "d">>, ds)) :
            a \in AttrSets, ds \in H5Datasets}

EParts ==
    {Nothing,
     Single(<<"e">>, DatasetNode("int32", <<1>>, <<0>>, EmptyAttrs, NoFilter))}

H5Trees ==
    {Override(Override(Single(Root, GroupNode(a)), g), e) :
        a \in AttrSets, g \in GParts, e \in EParts}

OldTree ==
    Override(Single(Root, GroupNode([k \in {"stale"} |-> 1])),
             Single(<<"old">>, GroupNode(EmptyAttrs)))

TdmsChannels ==
    {[properties |-> a, dtype |-> t, data |-> d] :
        a \in AttrSets, t \in DTypes, d \in ArrayData}

TdmsGroups ==
    {[properties |-> a, channels |-> Nothing] : a \in AttrSets}
    \cup {[properties |-> a, channels |-> Single("c", ch)] :
            a \in AttrSets, ch \in TdmsChannels}

TdmsFiles ==
    {[properties |-> a, groups |-> Nothing] : a \in AttrSets}
    \cup {[properties |-> a, groups |-> Single("g", g)] :
            a \in AttrSets, g \in TdmsGroups}

FsWith(p, c, q, old) ==
    [x \in FsPaths |-> IF x = p THEN c ELSE IF x = q THEN old ELSE Absent]

InitialFileSystems ==
    {FsWith(p, c, CompressedPath(p), old) :
        p \in CompressInputs,
        c \in {Absent, Junk} \cup {Hdf5File(t) : t \in H5Trees},
        old \in {Absent, Hdf5File(OldTree)}}
    \cup UNION {{FsWith(p, c, q, old) :
                    c \in {Absent, Junk} \cup {TdmsContent(t) : t \in TdmsFiles},
                    q \in {DefaultHdf5Path(p), ExplicitOut},
                    old \in {Absent, Junk, Hdf5File(OldTree)}} :
                p \in ConvertSources}

----------------------------------------------------------------------------
(* Messages *)

Msg(text, paths) == [text |-> text, paths |-> paths]

MissingFileMsg(p) == Msg("Error: The file does not exist.", <<p>>)

ConvertingMsg(p, q) == Msg("Converting...", <<p, q>>)

CompleteMsg == Msg("Conversion complete!", <<>>)

SavedMsg(p) == Msg("Compressed file saved as:", <<p>>)

NoInputMsg == Msg("No TDMS file provided. Exiting.", <<>>)

----------------------------------------------------------------------------
(* State machine *)

Init ==
    /\ fs \in InitialFileSystems
    /\ fs0 = fs
    /\ open = {}
    /\ written = {}
    /\ stdout = <<>>
    /\ exit = NoExit
    /\ pc = "idle"
    /\ entry = "none"
    /\ argv = <<>>
    /\ tdms_filepath = NoPath
    /\ hdf5_filepath = NoPath
    /\ tdms_file = NoTdms
    /\ input_path = NoPath
    /\ output_path = NoPath
    /\ visited = <<>>
    /\ run = 0
    /\ firstOut = Absent
    /\ firstVisited = <<>>

ExistsAlways(fsys, p) == TRUE

\* line 15: os.path.exists(tdms_filepath)
Exists(fsys, p) == fsys[p].kind # "absent"

\* Python truthiness of a path argument: None and "" are false
Falsy(p) == p = NoPath \/ p = <<>>

\* an uncaught exception ends the script with status 1; a caller of the
\* functions sees the exception
StatusOnRaise == IF entry = "script" THEN Status(1) ELSE exit

StatusOnReturn == IF entry = "script" THEN Status(0) ELSE exit

(* convert_tdms_to_hdf5, lines 6-32 *)

CallConvert(src, out) ==
    /\ pc = "idle"
    /\ entry' = "convert"
    /\ tdms_filepath' = src
    /\ hdf5_filepath' = out
    /\ pc' = "cv_check"
    /\ UNCHANGED <<fs, fs0, open, written, stdout, exit, argv, tdms_file,
                   input_path, output_path, visited, run, firstOut, firstVisited>>

\* lines 15-17: print the error and sys.exit(1) when the source is missing
ConvertCheck ==
    /\ pc = "cv_check"
    /\ IF Exists(fs, tdms_filepath)
       THEN /\ pc' = "cv_derive"
            /\ UNCHANGED <<stdout, exit>>
       ELSE /\ stdout' = Append(stdout, MissingFileMsg(tdms_filepath))
            /\ exit' = Status(1)
            /\ pc' = "exited"
    /\ UNCHANGED <<fs, fs0, open, written, entry, argv, tdms_filepath,
                   hdf5_filepath, tdms_file, input_path, output_path, visited,
                   run, firstOut, firstVisited>>

\* lines 20-24: derive the output path when none was given, print the banner
ConvertDerive ==
    /\ pc = "cv_derive"
    /\ hdf5_filepath' = ResolveHdf5Path(tdms_filepath, hdf5_filepath)
    /\ stdout' = Append(stdout, ConvertingMsg(tdms_filepath, hdf5_filepath'))
    /\ pc' = "cv_read"
    /\ UNCHANGED <<fs, fs0, open, written, exit, entry, argv, tdms_filepath,
                   tdms_file, input_path, output_path, visited, run, firstOut,
                   firstVisited>>

\* line 27: TdmsFile.read reads the whole file into memory and closes it; a
\* file that is no TDMS file makes it raise
ConvertRead ==
    /\ pc = "cv_read"
    /\ IF fs[tdms_filepath].kind = "tdms"
       THEN /\ tdms_file' = fs[tdms_filepath]
            /\ pc' = "cv_export"
            /\ UNCHANGED exit
       ELSE /\ pc' = "raised"
            /\ exit' = StatusOnRaise
            /\ UNCHANGED tdms_file
    /\ UNCHANGED <<fs, fs0, open, written, stdout, entry, argv, tdms_filepath,
                   hdf5_filepath, input_path, output_path, visited, run,
                   firstOut, firstVisited>>

\* lines 31-32: as_hdf writes the file and returns the h5py.File it opened;
\* the statement drops that object without closing it, so whether the handle
\* is still open when the procedure ends is left to the garbage collector
ConvertExport ==
    /\ pc = "cv_export"
    /\ fs' = [fs EXCEPT ![hdf5_filepath] = ExportFile(@, tdms_file.tdms)]
    /\ written' = written \cup {hdf5_filepath}
    /\ \E collected \in BOOLEAN :
          open' = IF collected THEN open
                  ELSE open \cup {[path |-> hdf5_filepath, mode |-> "w"]}
    /\ stdout' = Append(stdout, CompleteMsg)
    /\ exit' = StatusOnReturn
    /\ pc' = "returned"
    /\ UNCHANGED <<fs0, entry, argv, tdms_filepath, hdf5_filepath, tdms_file,
                   input_path, output_path, visited, run, firstOut, firstVisited>>

\* line 31: the output file cannot be opened for writing (OSError)
ConvertExportFails ==
    /\ pc = "cv_export"
    /\ pc' = "raised"
    /\ exit' = StatusOnRaise
    /\ UNCHANGED <<fs, fs0, open, written, stdout, entry, argv, tdms_filepath,
                   hdf5_filepath, tdms_file, input_path, output_path, visited,
                   run, firstOut, firstVisited>>

(* compress_hdf5_file, lines 34-85 *)

ReadHandle(p) == [path |-> p, mode |-> "r"]

WriteHandle(p) == [path |-> p, mode |-> "w"]

OpenBothOutputFirst(fsys, inp, outp, outOk) ==
    IF ~outOk
    THEN [fs |-> fsys, open |-> {}, written |-> {}, raised |-> TRUE]
    ELSE IF fsys[inp].kind # "hdf5"
    THEN [fs |-> [fsys EXCEPT ![outp] = Hdf5File(EmptyTree)], open |-> {},
          written |-> {outp}, raised |-> TRUE]
    ELSE [fs |-> [fsys EXCEPT ![outp] = Hdf5File(EmptyTree)],
          open |-> {ReadHandle(inp), WriteHandle(outp)},
          written |-> {outp}, raised |-> FALSE]

\* line 54: with h5py.File(input_path, 'r') as f_in, h5py.File(output_path, 'w')
\* as f_out: the input is opened first; when the output cannot be opened the
\* input is closed again on the way out
OpenBoth(fsys, inp, outp, outOk) ==
    IF fsys[inp].kind # "hdf5"
    THEN [fs |-> fsys, open |-> {}, written |-> {}, raised |-> TRUE]
    ELSE IF ~outOk
    THEN [fs |-> fsys, open |-> {}, written |-> {}, raised |-> TRUE]
    ELSE [fs |-> [fsys EXCEPT ![outp] = Hdf5File(EmptyTree)],
          open |-> {ReadHandle(inp), WriteHandle(outp)},
          written |-> {outp}, raised |-> FALSE]

Range(seq) == {seq[i] : i \in 1..Len(seq)}

\* lines 49-51
CallCompress(p) ==
    /\ pc = "idle"
    /\ entry' = "compress"
    /\ input_path' = p
    /\ output_path' = CompressedPath(p)
    /\ run' = 1
    /\ pc' = "cp_open"
    /\ UNCHANGED <<fs, fs0, open, written, stdout, exit, argv, tdms_filepath,
                   hdf5_filepath, tdms_file, visited, firstOut, firstVisited>>

\* line 54
CompressOpen ==
    /\ pc = "cp_open"
    /\ \E outOk \in BOOLEAN :
          LET r == OpenBoth(fs, input_path, output_path, outOk)
          IN  /\ fs' = r.fs
              /\ open' = open \cup r.open
              /\ written' = written \cup r.written
              /\ pc' = IF r.raised THEN "raised" ELSE "cp_visit"
              /\ exit' = IF r.raised THEN StatusOnRaise ELSE exit
    /\ visited' = <<>>
    /\ UNCHANGED <<fs0, stdout, entry, argv, tdms_filepath, hdf5_filepath,
                   tdms_file, input_path, output_path, run, firstOut,
                   firstVisited>>

\* line 83, one callback of visititems: copy_item on an object not visited yet;
\* an exception in the callback leaves the with block, which closes both files
CompressVisit ==
    /\ pc = "cp_visit"
    /\ \E name \in VisitNames(fs[input_path].tree) \ Range(visited) :
          LET r == CopyItem(fs[output_path].tree, name,
                            fs[input_path].tree[name], DefaultFilter)
          IN  /\ fs' = [fs EXCEPT ![output_path] = Hdf5File(r.tree)]
              /\ visited' = Append(visited, name)
              /\ pc' = IF r.raised THEN "raised" ELSE "cp_visit"
              /\ open' = IF r.raised THEN {} ELSE open
              /\ exit' = IF r.raised THEN StatusOnRaise ELSE exit
    /\ UNCHANGED <<fs0, written, stdout, entry, argv, tdms_filepath,
                   hdf5_filepath, tdms_file, input_path, output_path, run,
                   firstOut, firstVisited>>

\* lines 83-84: visititems returns, the with block closes both files, the
\* completion message is printed
CompressFinish ==
    /\ pc = "cp_visit"
    /\ VisitNames(fs[input_path].tree) \subseteq Range(visited)
    /\ open' = {}
    /\ stdout' = Append(stdout, SavedMsg(output_path))
    /\ exit' = StatusOnReturn
    /\ pc' = "returned"
    /\ UNCHANGED <<fs, fs0, written, entry, argv, tdms_filepath, hdf5_filepath,
                   tdms_file, input_path, output_path, visited, run, firstOut,
                   firstVisited>>

\* compress_hdf5_file called a second time on the same input
CompressAgain ==
    /\ pc = "returned"
    /\ entry = "compress"
    /\ run = 1
    /\ run' = 2
    /\ firstOut' = fs[output_path]
    /\ firstVisited' = visited
    /\ fs0' = fs
    /\ written' = {}
    /\ pc' = "cp_open"
    /\ UNCHANGED <<fs, open, stdout, exit, entry, argv, tdms_filepath,
                   hdf5_filepath, tdms_file, input_path, output_path, visited>>

(* main, lines 88-104 *)

MainParams == {NoPath, <<>>, SrcTdms, ExplicitOut}

ArgLists ==
    {<<>>, <<SrcTdms>>, <<SrcH5Named>>, <<SrcTdms, ExplicitOut>>,
     <<SrcTdms, ExplicitOut, SrcH5Named>>}

\* lines 90-101: the paths come from sys.argv when it has arguments, from the
\* parameters otherwise; no source path at all is an error
CallMain(tp, hp, args) ==
    /\ pc = "idle"
    /\ entry' = "main"
    /\ argv' = args
    /\ IF Len(args) > 0
       THEN /\ tdms_filepath' = args[1]
            /\ hdf5_filepath' = IF Len(args) > 1 THEN args[2] ELSE NoPath
            /\ pc' = "cv_check"
            /\ UNCHANGED <<stdout, exit>>
       ELSE IF Falsy(tp)
       THEN /\ stdout' = Append(stdout, NoInputMsg)
            /\ exit' = Status(1)
            /\ pc' = "exited"
            /\ tdms_filepath' = tp
            /\ hdf5_filepath' = hp
       ELSE /\ tdms_filepath' = tp
            /\ hdf5_filepath' = IF Falsy(hp) THEN NoPath ELSE hp
            /\ pc' = "cv_check"
            /\ UNCHANGED <<stdout, exit>>
    /\ UNCHANGED <<fs, fs0, open, written, tdms_file, input_path, output_path,
                   visited, run, firstOut, firstVisited>>

(* the script, lines 107-111 *)

\* lines 108-111: the call of main is commented out; the script calls
\* compress_hdf5_file on the hardcoded path, whatever sys.argv holds
RunScript(args) ==
    /\ pc = "idle"
    /\ entry' = "script"
    /\ argv' = args
    /\ input_path' = HardcodedHdf5
    /\ output_path' = CompressedPath(HardcodedHdf5)
    /\ run' = 1
    /\ pc' = "cp_open"
    /\ UNCHANGED <<fs, fs0, open, written, stdout, exit, tdms_filepath,
                   hdf5_filepath, tdms_file, visited, firstOut, firstVisited>>

Next ==
    \/ \E src \in ConvertSources :
          \E out \in {NoPath, ExplicitOut, src} : CallConvert(src, out)
    \/ ConvertCheck
    \/ ConvertDerive
    \/ ConvertRead
    \/ ConvertExport
    \/ ConvertExportFails
    \/ \E p \in CompressInputs : CallCompress(p)
    \/ CompressOpen
    \/ CompressVisit
    \/ CompressFinish
    \/ CompressAgain
    \/ \E tp \in MainParams, hp \in MainParams, args \in ArgLists :
          CallMain(tp, hp, args)
    \/ \E args \in ArgLists : RunScript(args)

Spec == Init /\ [][Next]_vars

----------------------------------------------------------------------------
(* Output path derivation applied to arbitrary paths *)

PathChars == {"a", ExtSep, Sep}

PathsOfLen(n) == [1..n -> PathChars]

PathSet ==
    UNION {PathsOfLen(n) : n \in 0..MaxPathLen}
    \cup {SrcTdms, SrcH5Named, CompressIn, HardcodedHdf5}

InitPath ==
    /\ fs = [x \in FsPaths |-> Absent]
    /\ fs0 = fs
    /\ open = {}
    /\ written = {}
    /\ stdout = <<>>
    /\ exit = NoExit
    /\ pc = "path_idle"
    /\ entry = "none"
    /\ argv = <<>>
    /\ tdms_filepath = NoPath
    /\ hdf5_filepath = NoPath
    /\ tdms_file = NoTdms
    /\ input_path = NoPath
    /\ output_path = NoPath
    /\ visited = <<>>
    /\ run = 0
    /\ firstOut = Absent
    /\ firstVisited = <<>>

\* lines 20-22 applied to source path p and output argument out; argv keeps
\* the two arguments
DeriveConvert(p, out) ==
    /\ pc = "path_idle"
    /\ argv' = <<p, out>>
    /\ tdms_filepath' = p
    /\ hdf5_filepath' = ResolveHdf5Path(p, out)
    /\ pc' = "path_convert"
    /\ UNCHANGED <<fs, fs0, open, written, stdout, exit, entry, tdms_file,
                   input_path, output_path, visited, run, firstOut, firstVisited>>

\* lines 50-51 applied to input path p
DeriveCompress(p) ==
    /\ pc = "path_idle"
    /\ argv' = <<p>>
    /\ input_path' = p
    /\ output_path' = CompressedPath(p)
    /\ pc' = "path_compress"
    /\ UNCHANGED <<fs, fs0, open, written, stdout, exit, entry, tdms_filepath,
                   hdf5_filepath, tdms_file, visited, run, firstOut, firstVisited>>

NextPath ==
    \/ \E p \in PathSet : \E out \in {NoPath, ExplicitOut, p} : DeriveConvert(p, out)
    \/ \E p \in PathSet : DeriveCompress(p)

SpecPath == InitPath /\ [][NextPath]_vars

----------------------------------------------------------------------------
(* Properties *)

Terminal == pc \in {"returned", "raised", "exited"}

InConvert == entry \in {"convert", "main"} /\ tdms_filepath \in FsPaths

InCompress == entry \in {"compress", "script"}

Count(seq, x) == Cardinality({i \in 1..Len(seq) : seq[i] = x})

Position(seq, x) == CHOOSE i \in 1..Len(seq) : seq[i] = x

GroupPaths(tree) == {n \in DOMAIN tree : tree[n].kind = "group"}

DatasetPaths(tree) == {n \in DOMAIN tree : tree[n].kind = "dataset"}

\* k is where the extension of p starts: the last dot of the last component,
\* with a character other than a dot before it in that component
IsExtensionStart(p, k) ==
    /\ k \in 1..Len(p)
    /\ p[k] = "."
    /\ \A i \in (k + 1)..Len(p) : p[i] # "." /\ p[i] # "/"
    /\ \E j \in 1..(k - 1) :
          /\ p[j] # "."
          /\ \A i \in j..(k - 1) : p[i] # "/"

ExtensionStart(p) ==
    IF \E k \in 1..Len(p) : IsExtensionStart(p, k)
    THEN CHOOSE k \in 1..Len(p) : IsExtensionStart(p, k)
    ELSE Len(p) + 1

Stem(p) == SubSeq(p, 1, ExtensionStart(p) - 1)

Extension(p) == SubSeq(p, ExtensionStart(p), Len(p))

\* C1: after compress_hdf5_file completes, the output tree is the input tree
\* (same paths, same attributes on every node, the root included, same
\* shapes and data), the storage filter aside.
CompressIsomorphic ==
    (InCompress /\ pc = "returned") =>
        Decoded(fs[output_path].tree) = Decoded(fs0[input_path].tree)

\* C2: after convert_tdms_to_hdf5 completes, the output file holds, at the top
\* level, exactly the source's groups as groups and its channels as datasets
\* with the source's shapes, element types and data, whatever the output path
\* held before.
ConvertRoundTrip ==
    (InConvert /\ pc = "returned") =>
        LET src == tdms_file.tdms
            out == fs[hdf5_filepath]
        IN  /\ tdms_file = fs0[tdms_filepath]
            /\ out.kind = "hdf5"
            /\ GroupPaths(out.tree) = {Root} \cup {<<g>> : g \in DOMAIN src.groups}
            /\ \A n \in DatasetPaths(out.tree) :
                  /\ Len(n) = 2
                  /\ n[1] \in DOMAIN src.groups
                  /\ n[2] \in DOMAIN src.groups[n[1]].channels
            /\ \A g \in DOMAIN src.groups :
                  \A c \in DOMAIN src.groups[g].channels :
                      /\ <<g, c>> \in DatasetPaths(out.tree)
                      /\ out.tree[<<g, c>>].shape = <<Len(src.groups[g].channels[c].data)>>
                      /\ out.tree[<<g, c>>].dtype = src.groups[g].channels[c].dtype
                      /\ out.tree[<<g, c>>].data = src.groups[g].channels[c].data

ConvertRoundTripWitness ==
    /\ InConvert
    /\ pc = "returned"
    /\ fs0[hdf5_filepath].kind = "hdf5"
    /\ hdf5_filepath # tdms_filepath
    /\ DatasetPaths(fs[hdf5_filepath].tree) # {}

\* C3: the converter's target is the supplied output path when there is one,
\* else the source path without its extension plus ".h5"; the compressor's
\* target is the input path with "_compressed" inserted before its extension.
PathDerivation ==
    /\ pc = "path_convert" =>
          IF argv[2] = NoPath
          THEN hdf5_filepath = Stem(argv[1]) \o <<".", "h", "5">>
          ELSE hdf5_filepath = argv[2]
    /\ pc = "path_compress" =>
          output_path = Stem(argv[1]) \o CompressedSuffix \o Extension(argv[1])
    /\ (pc = "path_convert" /\ argv = <<SrcTdms, NoPath>>) =>
          hdf5_filepath = <<"x", "/", "y", ".", "h", "5">>
    /\ (pc = "path_compress" /\ argv = <<CompressIn>>) =>
          output_path = <<"a", "/", "b">> \o CompressedSuffix \o <<".", "h", "5">>

PathDerivationWitness ==
    \/ /\ pc = "path_convert"
       /\ argv = <<SrcTdms, NoPath>>
       /\ hdf5_filepath = <<"x", "/", "y", ".", "h", "5">>
    \/ /\ pc = "path_compress"
       /\ argv = <<<<".", "a", ".", "a">>>>
       /\ output_path = <<".", "a">> \o CompressedSuffix \o <<".", "a">>

\* C4: convert_tdms_to_hdf5 on a source path that does not exist prints the
\* diagnostic naming the path and exits with status 1 before anything is read
\* or written: the file system is as it was before the call.
MissingSourceExits ==
    (InConvert /\ pc \notin {"idle", "cv_check"} /\ fs0[tdms_filepath].kind = "absent") =>
        /\ pc = "exited"
        /\ exit = Status(1)
        /\ stdout = <<MissingFileMsg(tdms_filepath)>>
        /\ fs = fs0
        /\ tdms_file = NoTdms
        /\ written = {}
        /\ open = {}

MissingSourceExitsWitness ==
    /\ InConvert
    /\ pc = "exited"
    /\ fs0[tdms_filepath].kind = "absent"
    /\ fs[ResolveHdf5Path(tdms_filepath, hdf5_filepath)].kind = "hdf5"

\* C5: the script dispatches on its arguments: none is an error with status 1
\* and no file written; one converts that path to the derived output path; two
\* convert the first path to the second; a successful run ends with status 0.
CommandLineDispatch ==
    (entry = "script" /\ Terminal) =>
        IF Len(argv) = 0
        THEN /\ exit = Status(1)
             /\ fs = fs0
        ELSE LET src == argv[1]
                 target == ResolveHdf5Path(src, IF Len(argv) > 1 THEN argv[2] ELSE NoPath)
             IN  /\ fs0[src].kind = "absent" =>
                        /\ exit = Status(1)
                        /\ Count(stdout, MissingFileMsg(src)) = 1
                        /\ fs = fs0
                 /\ fs0[src].kind = "tdms" =>
                        /\ Count(stdout, ConvertingMsg(src, target)) = 1
                        /\ pc = "returned" =>
                               /\ exit = Status(0)
                               /\ fs[target] = ExportFile(fs0[target], fs0[src].tdms)

\* C6: neither procedure modifies its input file, and the file it opens for
\* writing is never the input file.
InputNeverModified ==
    /\ (InConvert /\ pc # "idle") =>
          /\ fs[tdms_filepath] = fs0[tdms_filepath]
          /\ tdms_filepath \notin written
    /\ InCompress =>
          /\ fs[input_path] = fs0[input_path]
          /\ input_path \notin written

\* C7: when a procedure has ended, by returning, raising or exiting, no file
\* handle it acquired is open.
HandlesClosedAtEnd == Terminal => open = {}

\* C8: a second run of compress_hdf5_file on the same input leaves the same
\* decoded output as the first, whatever order each run visited the nodes in.
CompressRepeatable ==
    (entry = "compress" /\ run = 2 /\ pc = "returned") =>
        /\ firstOut.kind = "hdf5"
        /\ Decoded(fs[output_path].tree) = Decoded(firstOut.tree)

CompressRepeatableWitness ==
    /\ entry = "compress"
    /\ run = 2
    /\ pc = "returned"
    /\ Count(visited, <<"g">>) = 1
    /\ Count(visited, <<"g", "d">>) = 1
    /\ Count(visited, <<"e">>) = 1
    /\ Position(visited, <<"g", "d">>) < Position(visited, <<"g">>)
    /\ Position(firstVisited, <<"g">>) < Position(firstVisited, <<"g", "d">>)
    /\ Position(visited, <<"e">>) # Position(firstVisited, <<"e">>)

\* C9: when the input of compress_hdf5_file cannot be opened as an HDF5 file
\* the call raises before the output is opened: nothing is created or
\* truncated, no completion message is printed, no handle stays open.
BadInputFailsFirst ==
    (InCompress /\ pc \notin {"idle", "cp_open"} /\ fs0[input_path].kind # "hdf5") =>
        /\ pc = "raised"
        /\ fs = fs0
        /\ written = {}
        /\ open = {}
        /\ Count(stdout, SavedMsg(output_path)) = 0
        /\ entry = "script" => exit = Status(1)

BadInputFailsFirstWitness ==
    /\ InCompress
    /\ pc = "raised"
    /\ fs0[input_path].kind = "junk"
    /\ fs[output_path] = Hdf5File(OldTree)

\* C10: in a completed run of compress_hdf5_file the copy callback ran exactly
\* once for every node of the input tree, the root included.
EveryNodeVisitedOnce ==
    (InCompress /\ pc = "returned") =>
        \A n \in DOMAIN fs[input_path].tree : Count(visited, n) = 1

====
